---------------------------- MODULE Spec2Model ----------------------------
(***************************************************************************)
(* A model of script.js of the password generator: secureRandomInt,        *)
(* pickOne, shuffleInPlace, buildPools, generatePassword and the copy      *)
(* button's click handler.                                                 *)
(*                                                                         *)
(* A JavaScript string is modelled as a sequence of characters, a          *)
(* character being a one-character TLA+ string; str[k] of the code is      *)
(* s[k + 1] here.  Status and error messages are TLA+ strings.  Numbers    *)
(* are integers: a non-integer or NaN argument is outside the model.       *)
(***************************************************************************)
EXTENDS Integers, Sequences, FiniteSets, TLC

VARIABLES
    \* generatePassword: position, arguments, locals, returned object
    pc, length, options, pools, chars, i, calls, result, prevError,
    \* shuffleInPlace run on its own: the array as passed in, the indices drawn
    original, js,
    \* secureRandomInt run on its own
    rngPc, maxExclusive, value, ret, draws,
    \* the copy button
    outputValue, label, status, awaiting, timers, clicks, copied

genVars == <<pc, length, options, pools, chars, i, calls, result, prevError>>
shVars == <<original, js>>
rngVars == <<rngPc, maxExclusive, value, ret, draws>>
copyVars == <<outputValue, label, status, awaiting, timers, clicks, copied>>
vars == <<genVars, shVars, rngVars, copyVars>>

----------------------------------------------------------------------------
(* Bounds of the model *)

\* Each character set is cut to its first CharsetCap characters.
CharsetCap == 2
\* Requested lengths run from -1 to MaxLength.
MaxLength == 4
\* The random word has WordBits bits where the code's Uint32Array has 32.
WordBits == 4
\* secureRandomInt on its own: at most MaxDraws words are drawn in one call.
MaxDraws == 2
\* shuffleInPlace on its own: arrays of at most MaxShuffleLen elements.
MaxShuffleLen == 5
\* The copy button is clicked at most MaxClicks times.
MaxClicks == 3

----------------------------------------------------------------------------
(* Helpers *)

Min(a, b) == IF a < b THEN a ELSE b

RECURSIVE Pow2(_)
Pow2(n) == IF n = 0 THEN 1 ELSE 2 * Pow2(n - 1)

RECURSIVE Factorial(_)
Factorial(n) == IF n <= 1 THEN 1 ELSE n * Factorial(n - 1)

Range(s) == {s[k] : k \in DOMAIN s}

\* Array.prototype.join("") over strings: the concatenation of the elements.
RECURSIVE Join(_)
Join(strs) == IF strs = <<>> THEN <<>> ELSE Head(strs) \o Join(Tail(strs))

Truncate(s) == SubSeq(s, 1, Min(Len(s), CharsetCap))

----------------------------------------------------------------------------
(* Character sets *)

CHARSETS ==
    [upper |-> Truncate(<<"A","B","C","D","E","F","G","H","I","J","K","L","M",
                          "N","O","P","Q","R","S","T","U","V","W","X","Y","Z">>),
     lower |-> Truncate(<<"a","b","c","d","e","f","g","h","i","j","k","l","m",
                          "n","o","p","q","r","s","t","u","v","w","x","y","z">>),
     numbers |-> Truncate(<<"0","1","2","3","4","5","6","7","8","9">>),
     symbols |-> Truncate(<<"!","@","#","$","%","^","&","*","(",")","-","_",
                            "=","+","[","]","{","}",";",":",",",".","<",">",
                            "?","/","|","~">>)]

ClassNames == {"upper", "lower", "numbers", "symbols"}

\* What getSelectedOptions can return: four independent checkbox states.
OptionSets == [ClassNames -> BOOLEAN]

Lengths == (0 - 1)..MaxLength

----------------------------------------------------------------------------
(* secureRandomInt *)

\* 0xffffffff, at the model's word width
uint32Max == Pow2(WordBits) - 1

Words == 0..uint32Max

limit_spec(m) == (uint32Max + 1) - ((uint32Max + 1) % m)
limit(m) == uint32Max - (uint32Max % m)

\* The guard of the throw.
throws(m) == m <= 0

\* The values a call that returns can return, with window.crypto usable
\* (crypto) or not: the fallback is Math.floor(Math.random() * maxExclusive).
secureRandomInt(m, crypto) ==
    IF ~crypto THEN 0..(m - 1)
    ELSE {v % m : v \in {w \in Words : w < limit(m)}}

----------------------------------------------------------------------------
(* shuffleInPlace *)

\* [array[i], array[j]] = [array[j], array[i]]
Swap_overwrite(array, a, b) == [array EXCEPT ![a + 1] = array[b + 1]]
Swap(array, a, b) ==
    [array EXCEPT ![a + 1] = array[b + 1], ![b + 1] = array[a + 1]]

\* The argument of secureRandomInt at index i of the loop.
ShuffleBound_exclusive(k) == k
ShuffleBound(k) == k + 1

\* The loop's first index, and whether the loop runs at index k.
ShuffleStart(array) == Len(array) - 1
ShuffleRuns(k) == k > 0

----------------------------------------------------------------------------
(* buildPools *)

buildPools_reordered(opts) ==
    (IF opts.lower THEN <<CHARSETS.lower>> ELSE <<>>)
    \o (IF opts.upper THEN <<CHARSETS.upper>> ELSE <<>>)
    \o (IF opts.numbers THEN <<CHARSETS.numbers>> ELSE <<>>)
    \o (IF opts.symbols THEN <<CHARSETS.symbols>> ELSE <<>>)
buildPools(opts) ==
    (IF opts.upper THEN <<CHARSETS.upper>> ELSE <<>>)
    \o (IF opts.lower THEN <<CHARSETS.lower>> ELSE <<>>)
    \o (IF opts.numbers THEN <<CHARSETS.numbers>> ELSE <<>>)
    \o (IF opts.symbols THEN <<CHARSETS.symbols>> ELSE <<>>)

----------------------------------------------------------------------------
(* generatePassword *)

NoOptionMsg == "Select at least one character option."
TooShortMsg(k) ==
    "Length must be at least " \o ToString(k) \o " to include each selected type."
NoCharsMsg == "No characters available with current options."

\* The two early returns: the error message, or "" when both checks pass.
Validate_offByOne(len, ps) ==
    IF Len(ps) = 0 THEN NoOptionMsg
    ELSE IF len <= Len(ps) THEN TooShortMsg(Len(ps))
    ELSE ""
Validate(len, ps) ==
    IF Len(ps) = 0 THEN NoOptionMsg
    ELSE IF len < Len(ps) THEN TooShortMsg(Len(ps))
    ELSE ""

Failure_partial(msg) == [password |-> <<"A">>, error |-> msg]
Failure(msg) == [password |-> <<>>, error |-> msg]
Success(cs) == [password |-> Join([k \in DOMAIN cs |-> <<cs[k]>>]), error |-> ""]

combinedPool_all(ps) ==
    CHARSETS.upper \o CHARSETS.lower \o CHARSETS.numbers \o CHARSETS.symbols
combinedPool(ps) == Join(ps)

\* while (chars.length < length)
FillMore_inclusive(cs, len) == Len(cs) <= len
FillMore(cs, len) == Len(cs) < len

\* The code that runs after a character is pushed, up to the next call of
\* secureRandomInt or to the return.
Continue(cs, bound) ==
    /\ calls' = Append(calls, bound)
    /\ IF Len(cs) < Len(pools)
       THEN /\ pc' = "pick"
            /\ chars' = cs
            /\ UNCHANGED <<i, result>>
       ELSE IF combinedPool(pools) = <<>>
       THEN /\ pc' = "done"
            /\ chars' = cs
            /\ result' = Failure(NoCharsMsg)
            /\ UNCHANGED i
       ELSE IF FillMore(cs, length)
       THEN /\ pc' = "fill"
            /\ chars' = cs
            /\ UNCHANGED <<i, result>>
       ELSE IF ShuffleRuns(ShuffleStart(cs))
       THEN /\ pc' = "shuffle"
            /\ chars' = cs
            /\ i' = ShuffleStart(cs)
            /\ UNCHANGED result
       ELSE /\ pc' = "done"
            /\ chars' = cs
            /\ result' = Success(cs)
            /\ UNCHANGED i
    /\ UNCHANGED <<length, options, pools, prevError>>

\* secureRandomInt throws: the exception leaves generatePassword.
Raise(bound) ==
    /\ pc' = "threw"
    /\ calls' = Append(calls, bound)
    /\ UNCHANGED <<length, options, pools, chars, i, result, prevError>>

\* generatePassword(len, opts) is called: buildPools and the two checks.
Call(len, opts) ==
    /\ pc = "idle"
    /\ LET ps == buildPools(opts)
           err == Validate(len, ps)
       IN /\ length' = len
          /\ options' = opts
          /\ pools' = ps
          /\ chars' = <<>>
          /\ calls' = <<>>
          /\ i' = 0
          /\ prevError' = IF len = length /\ opts = options
                          THEN prevError ELSE "none"
          /\ IF err # ""
             THEN /\ pc' = "done"
                  /\ result' = Failure(err)
             ELSE /\ pc' = "pick"
                  /\ result' = [password |-> <<>>, error |-> ""]
    /\ UNCHANGED <<shVars, rngVars, copyVars>>

\* generatePassword has returned: its locals are gone and the caller holds
\* the returned object.  prevError remembers the error of a failed call for
\* as long as the same request is repeated.
Return ==
    /\ pc = "done"
    /\ pc' = "idle"
    /\ pools' = <<>>
    /\ chars' = <<>>
    /\ calls' = <<>>
    /\ i' = 0
    /\ result' = [password |-> <<>>, error |-> ""]
    /\ prevError' = IF result.error # "" THEN result.error ELSE "none"
    /\ UNCHANGED <<length, options>>
    /\ UNCHANGED <<shVars, rngVars, copyVars>>

\* pools.map((pool) => pickOne(pool)), one pool
PickStep ==
    /\ pc = "pick"
    /\ LET pool == pools[Len(chars) + 1]
       IN IF throws(Len(pool)) THEN Raise(Len(pool))
          ELSE \E crypto \in BOOLEAN :
                 \E r \in secureRandomInt(Len(pool), crypto) :
                    Continue(Append(chars, pool[r + 1]), Len(pool))
    /\ UNCHANGED <<shVars, rngVars, copyVars>>

\* chars.push(pickOne(combinedPool))
FillStep ==
    /\ pc = "fill"
    /\ LET pool == combinedPool(pools)
       IN IF throws(Len(pool)) THEN Raise(Len(pool))
          ELSE \E crypto \in BOOLEAN :
                 \E r \in secureRandomInt(Len(pool), crypto) :
                    Continue(Append(chars, pool[r + 1]), Len(pool))
    /\ UNCHANGED <<shVars, rngVars, copyVars>>

\* One iteration of shuffleInPlace(chars), and the return after the last.
ShuffleStep ==
    /\ pc = "shuffle"
    /\ LET bound == ShuffleBound(i)
       IN IF throws(bound) THEN Raise(bound)
          ELSE \E crypto \in BOOLEAN :
                 \E j \in secureRandomInt(bound, crypto) :
                    LET cs == Swap(chars, i, j)
                    IN /\ chars' = cs
                       /\ calls' = Append(calls, bound)
                       /\ i' = i - 1
                       /\ IF ShuffleRuns(i - 1)
                          THEN /\ pc' = "shuffle"
                               /\ UNCHANGED result
                          ELSE /\ pc' = "done"
                               /\ result' = Success(cs)
                       /\ UNCHANGED <<length, options, pools, prevError>>
    /\ UNCHANGED <<shVars, rngVars, copyVars>>

----------------------------------------------------------------------------
(* secureRandomInt on its own, one word at a time *)

RngArgs == (0 - 1)..(uint32Max + 2)

\* secureRandomInt(m) is called, with window.crypto usable (crypto) or not.
\* rngPc: "threw" after the throw, "fallback" after the Math.random return,
\* "loop" inside while (true), "returned" after the return of the loop.
RngCall(m, crypto) ==
    /\ rngPc \in {"idle", "threw", "fallback", "returned"}
    /\ maxExclusive' = m
    /\ value' = 0
    /\ draws' = 0
    /\ IF throws(m)
       THEN /\ rngPc' = "threw"
            /\ ret' = 0
       ELSE IF ~crypto
       THEN /\ rngPc' = "fallback"
            /\ ret' \in 0..(m - 1)
       ELSE /\ rngPc' = "loop"
            /\ ret' = 0
    /\ UNCHANGED <<genVars, shVars, copyVars>>

\* cryptoObj.getRandomValues(buffer) and the test of the word drawn
RngDraw ==
    /\ rngPc = "loop"
    /\ draws < MaxDraws
    /\ \E v \in Words :
          /\ value' = v
          /\ draws' = draws + 1
          /\ IF v < limit(maxExclusive)
             THEN /\ rngPc' = "returned"
                  /\ ret' = v % maxExclusive
             ELSE /\ rngPc' = "loop"
                  /\ ret' = 0
    /\ UNCHANGED maxExclusive
    /\ UNCHANGED <<genVars, shVars, copyVars>>

----------------------------------------------------------------------------
(* shuffleInPlace on its own, recording the indices drawn *)

ShuffleInputs ==
    {[k \in 1..n |-> k] : n \in 0..MaxShuffleLen}
    \cup {[k \in 1..n |-> (k + 1) \div 2] : n \in 2..MaxShuffleLen}

\* shuffleInPlace(array) is called.
ShuffleCall(array) ==
    /\ pc \in {"idle", "done"}
    /\ original' = array
    /\ chars' = array
    /\ js' = <<>>
    /\ i' = ShuffleStart(array)
    /\ pc' = IF ShuffleRuns(ShuffleStart(array)) THEN "shuffle" ELSE "done"
    /\ UNCHANGED <<length, options, pools, calls, result, prevError>>
    /\ UNCHANGED <<rngVars, copyVars>>

\* One iteration of the loop.
ShuffleIter ==
    /\ pc = "shuffle"
    /\ LET bound == ShuffleBound(i)
       IN IF throws(bound)
          THEN /\ pc' = "threw"
               /\ UNCHANGED <<chars, js, i>>
          ELSE \E crypto \in BOOLEAN :
                 \E j \in secureRandomInt(bound, crypto) :
                    /\ chars' = Swap(chars, i, j)
                    /\ js' = Append(js, j)
                    /\ i' = i - 1
                    /\ pc' = IF ShuffleRuns(i - 1) THEN "shuffle" ELSE "done"
    /\ UNCHANGED <<length, options, pools, calls, result, prevError, original>>
    /\ UNCHANGED <<rngVars, copyVars>>

\* The array shuffleInPlace leaves when the indices it draws are d, from
\* loop index k down.
RECURSIVE ShuffleFrom(_, _, _)
ShuffleFrom(array, k, d) ==
    IF ~ShuffleRuns(k) \/ d = <<>> THEN array
    ELSE ShuffleFrom(Swap(array, k, Head(d)), k - 1, Tail(d))

ShuffleWith(array, d) == ShuffleFrom(array, ShuffleStart(array), d)

\* Every sequence of indices the loop can draw from index k down.
RECURSIVE DrawSeqsFrom(_)
DrawSeqsFrom(k) ==
    IF ~ShuffleRuns(k) THEN {<<>>}
    ELSE {<<j>> \o rest : j \in secureRandomInt(ShuffleBound(k), TRUE),
                          rest \in DrawSeqsFrom(k - 1)}

DrawSeqs(array) == DrawSeqsFrom(ShuffleStart(array))

----------------------------------------------------------------------------
(* The copy button *)

CopyLabel == "Copy"
CopiedLabel == "Copied!"

\* output.value: empty, or a password doGenerate has put there.
OutputValues == {<<>>, <<CHARSETS.upper[1], CHARSETS.lower[1]>>}

\* doGenerate sets output.value: "" on an error, the password otherwise.
DoGenerate(v) ==
    /\ outputValue' = v
    /\ status' = IF v = <<>> THEN status ELSE "Password generated."
    /\ UNCHANGED <<label, awaiting, timers, clicks, copied>>
    /\ UNCHANGED <<genVars, shVars, rngVars>>

\* A click: the handler reads output.value and awaits copyToClipboard(text).
CopyClick ==
    /\ clicks < MaxClicks
    /\ clicks' = clicks + 1
    /\ awaiting' = Append(awaiting, outputValue)
    /\ UNCHANGED <<outputValue, label, status, timers, copied>>
    /\ UNCHANGED <<genVars, shVars, rngVars>>

RemoveAt(s, k) == SubSeq(s, 1, k - 1) \o SubSeq(s, k + 1, Len(s))

\* copyToClipboard(text) settles with ok and the handler runs to its end.
\* An empty text settles with false.
CopySettle(k, ok) ==
    /\ k \in DOMAIN awaiting
    /\ awaiting[k] = <<>> => ~ok
    /\ awaiting' = RemoveAt(awaiting, k)
    /\ IF awaiting[k] = <<>>
       THEN /\ status' = "Generate a password first."
            /\ UNCHANGED <<label, timers, copied>>
       ELSE IF ok
       THEN /\ label' = CopiedLabel
            /\ status' = "Copied to clipboard."
            /\ timers' = Append(timers, label)
            /\ copied' = copied + 1
       ELSE /\ status' = "Could not copy. Please copy manually."
            /\ UNCHANGED <<label, timers, copied>>
    /\ UNCHANGED <<outputValue, clicks>>
    /\ UNCHANGED <<genVars, shVars, rngVars>>

\* The oldest setTimeout callback runs: copyBtn.textContent = original.
TimerFire ==
    /\ timers # <<>>
    /\ label' = Head(timers)
    /\ timers' = Tail(timers)
    /\ UNCHANGED <<outputValue, status, awaiting, clicks, copied>>
    /\ UNCHANGED <<genVars, shVars, rngVars>>

----------------------------------------------------------------------------
(* Initial state *)

InitGen ==
    /\ pc = "idle"
    /\ length = 0
    /\ options = [c \in ClassNames |-> FALSE]
    /\ pools = <<>>
    /\ chars = <<>>
    /\ i = 0
    /\ calls = <<>>
    /\ result = [password |-> <<>>, error |-> ""]
    /\ prevError = "none"

InitShuffle ==
    /\ original = <<>>
    /\ js = <<>>

InitRng ==
    /\ rngPc = "idle"
    /\ maxExclusive = 1
    /\ value = 0
    /\ ret = 0
    /\ draws = 0

InitCopy ==
    /\ outputValue = <<>>
    /\ label = CopyLabel
    /\ status = ""
    /\ awaiting = <<>>
    /\ timers = <<>>
    /\ clicks = 0
    /\ copied = 0

Init == InitGen /\ InitShuffle /\ InitRng /\ InitCopy

Next ==
    \/ \E len \in Lengths, opts \in OptionSets : Call(len, opts)
    \/ PickStep
    \/ FillStep
    \/ ShuffleStep
    \/ Return

Spec == Init /\ [][Next]_vars

NextRng ==
    \/ \E m \in RngArgs, crypto \in BOOLEAN : RngCall(m, crypto)
    \/ RngDraw

SpecRng == Init /\ [][NextRng]_vars

NextShuffle ==
    \/ \E array \in ShuffleInputs : ShuffleCall(array)
    \/ ShuffleIter

SpecShuffle == Init /\ [][NextShuffle]_vars

NextCopy ==
    \/ \E v \in OutputValues : DoGenerate(v)
    \/ CopyClick
    \/ \E k \in 1..MaxClicks, ok \in BOOLEAN : CopySettle(k, ok)
    \/ TimerFire

SpecCopy == Init /\ [][NextCopy]_vars

----------------------------------------------------------------------------
(* The request, as the claims speak of it *)

Canonical == <<"upper", "lower", "numbers", "symbols">>

Enabled(opts) == {c \in ClassNames : opts[c]}

NumEnabled == Cardinality(Enabled(options))

ValidRequest == NumEnabled >= 1 /\ length >= NumEnabled

Returned == pc = "done"

\* The characters of class c, and of the enabled classes.
CharsOf(c) == Range(CHARSETS[c])
EnabledChars == UNION {CharsOf(c) : c \in Enabled(options)}

\* The sizes of the enabled character sets, in the canonical order.
EnabledSizes ==
    LET on(c) == options[c]
        names == SelectSeq(Canonical, on)
    IN [k \in DOMAIN names |-> Len(CHARSETS[names[k]])]

RECURSIVE Sum(_)
Sum(s) == IF s = <<>> THEN 0 ELSE Head(s) + Sum(Tail(s))

\* k picks, then length - k fills, then length - 1 shuffle steps.
ExpectedCalls ==
    EnabledSizes
    \o [k \in 1..(length - NumEnabled) |-> Sum(EnabledSizes)]
    \o [k \in 1..(length - 1) |-> length + 1 - k]

----------------------------------------------------------------------------
(* Claims about generatePassword: specification Spec *)

\* C1: a valid request returns an empty error and a password holding at
\* least one character of every enabled class, after the fill and the shuffle.
C1_EveryEnabledClassPresent ==
    (Returned /\ ValidRequest) =>
        /\ result.error = ""
        /\ \A c \in Enabled(options) :
              \E k \in DOMAIN result.password : result.password[k] \in CharsOf(c)

\* C1 witness: a request with several classes and room for fill characters
\* has returned, shuffled so that the first pool's pick is not in front.
C1_Witness ==
    /\ Returned /\ ValidRequest
    /\ NumEnabled >= 2 /\ length > NumEnabled
    /\ Len(calls) > length
    /\ result.password[1] \notin Range(pools[1])

\* C2: the password of a valid request has exactly `length` characters.
C2_ExactLength ==
    (Returned /\ ValidRequest) => Len(result.password) = length

\* C2 witness: a valid request longer than its number of classes has returned.
C2_Witness ==
    /\ Returned /\ ValidRequest
    /\ length > NumEnabled
    /\ result.password # <<>>

\* C3: every character of the password of a valid request belongs to the
\* character set of an enabled class.
C3_OnlyEnabledClasses ==
    (Returned /\ ValidRequest) =>
        \A k \in DOMAIN result.password : result.password[k] \in EnabledChars

\* C3 witness: a valid request with a disabled class and fill characters
\* has returned.
C3_Witness ==
    /\ Returned /\ ValidRequest
    /\ NumEnabled < 4 /\ length > NumEnabled
    /\ Len(result.password) = length

\* C4: the checks run in a fixed order: no class enabled gives the
\* no-option error whatever the length; otherwise a length below the number of
\* enabled classes gives the too-short error citing that number; every other
\* request returns an empty error.
C4_ValidationOrder ==
    Returned =>
        result.error =
            IF NumEnabled = 0 THEN "Select at least one character option."
            ELSE IF length < NumEnabled
            THEN "Length must be at least " \o ToString(NumEnabled)
                    \o " to include each selected type."
            ELSE ""

\* C4 witness: a request with three classes and length 2 has been refused.
C4_Witness ==
    /\ Returned
    /\ NumEnabled = 3 /\ length = 2
    /\ result.error # ""

\* C5: an invalid request returns without any call of secureRandomInt,
\* with the empty password and an error, and the same invalid request repeated
\* returns the same error.
C5_InvalidRequestFailsCleanly ==
    (Returned /\ ~ValidRequest) =>
        /\ calls = <<>>
        /\ result.password = <<>>
        /\ result.error # ""
        /\ prevError # "none" => result.error = prevError

\* C5 witness: an invalid request has been refused a second time in a row.
C5_Witness ==
    /\ Returned /\ ~ValidRequest
    /\ prevError # "none"

\* C9: a valid request builds the pools in the canonical order and makes
\* exactly 2 * length - 1 calls of secureRandomInt: one per pool with the pool's
\* size, length - k with the size of the combined pool, then length, ..., 2.
\* Every bound is positive and secureRandomInt never throws.
C9_CallSequence ==
    /\ pc # "threw"
    /\ \A k \in DOMAIN calls : calls[k] > 0
    /\ (Returned /\ ValidRequest) =>
          /\ pools = [k \in 1..NumEnabled |->
                         CHARSETS[SelectSeq(Canonical, LAMBDA c : options[c])[k]]]
          /\ calls = ExpectedCalls
          /\ Len(calls) = 2 * length - 1

\* C9 witness: a valid request without the first class, with fill characters
\* and a shuffle, has returned.
C9_Witness ==
    /\ Returned /\ ValidRequest
    /\ ~options["upper"]
    /\ NumEnabled >= 2 /\ length > NumEnabled

----------------------------------------------------------------------------
(* Claims about secureRandomInt: specification SpecRng *)

\* Whether the words the rejection test accepts for m cover 0..m-1, each
\* result from the same number of words.
Unbiased(m) ==
    LET accepted == {v \in Words : v < limit(m)}
        hits(r) == Cardinality({v \in accepted : v % m = r})
    IN \A r \in 0..(m - 1) : hits(r) > 0 /\ hits(r) = hits(0)

\* C6: on the secure path, for every positive maxExclusive, the value
\* returned lies in 0..maxExclusive-1 and the accepted words map onto
\* 0..maxExclusive-1 with every result hit equally often.
C6_UniformForEveryBound ==
    /\ rngPc = "returned" => ret \in 0..(maxExclusive - 1)
    /\ rngPc \in {"loop", "returned"} => Unbiased(maxExclusive)

\* The same for the bounds one word can serve, 1..2^w - 1: there the accepted
\* words do cover 0..maxExclusive-1 evenly.  From 2^w on, limit is 0, no word
\* is accepted and the loop never ends.
UniformWithinWordRange ==
    /\ rngPc = "returned" => ret \in 0..(maxExclusive - 1)
    /\ (rngPc \in {"loop", "returned"} /\ maxExclusive <= uint32Max) =>
          Unbiased(maxExclusive)
    /\ (rngPc \in {"loop", "returned"} /\ maxExclusive > uint32Max) =>
          rngPc = "loop" /\ limit(maxExclusive) = 0

\* C7 as stated: a word v is accepted exactly when
\* v < 2^w - (2^w mod maxExclusive), and nothing is rejected when maxExclusive
\* divides 2^w.
C7_LimitFromTwoToTheW ==
    LET top == Pow2(WordBits)
        lim == top - (top % maxExclusive)
        rejected == rngPc = "loop" /\ draws > 0
    IN /\ rngPc = "returned" => value < lim /\ ret = value % maxExclusive
       /\ rejected => value >= lim
       /\ rejected => top % maxExclusive # 0

\* C7 as amended: a word v is accepted exactly when
\* v < (2^w - 1) - ((2^w - 1) mod maxExclusive); when maxExclusive divides 2^w
\* the words from 2^w - maxExclusive up are the ones rejected.
C7_LimitFromWordMax ==
    LET top == Pow2(WordBits)
        lim == (top - 1) - ((top - 1) % maxExclusive)
        rejected == rngPc = "loop" /\ draws > 0
    IN /\ rngPc = "returned" => value < lim /\ ret = value % maxExclusive
       /\ rejected => value >= lim
       /\ (rejected /\ top % maxExclusive = 0) => value >= top - maxExclusive

\* C7 witness: a word has been rejected for a maxExclusive that divides 2^w.
C7_Witness ==
    /\ rngPc = "loop" /\ draws > 0
    /\ maxExclusive <= uint32Max
    /\ Pow2(WordBits) % maxExclusive = 0

----------------------------------------------------------------------------
(* Claims about shuffleInPlace: specification SpecShuffle *)

Count(s, x) == Cardinality({k \in DOMAIN s : s[k] = x})

IsPermutation(s, t) ==
    /\ Len(s) = Len(t)
    /\ \A x \in Range(s) \cup Range(t) : Count(s, x) = Count(t, x)

Distinct(s) == \A a, b \in DOMAIN s : s[a] = s[b] => a = b

\* C8: the loop runs i from length-1 down to 1 with j drawn from 0..i;
\* the array left is a permutation of the array given, and for distinct
\* elements the draw sequences and the resulting orders correspond one to
\* one, all n! orders being produced.
C8_ShuffleIsBijection ==
    /\ \A k \in DOMAIN js : js[k] \in 0..(Len(original) - k)
    /\ Returned =>
          /\ IsPermutation(chars, original)
          /\ Len(js) = IF original = <<>> THEN 0 ELSE Len(original) - 1
          /\ chars = ShuffleWith(original, js)
          /\ Distinct(original) =>
                /\ \A d \in DrawSeqs(original) :
                      ShuffleWith(original, d) = chars => d = js
                /\ Cardinality({ShuffleWith(original, d) : d \in DrawSeqs(original)})
                      = Factorial(Len(original))

\* C8 witness: a shuffle of distinct elements has ended with the first
\* element at the last index.
C8_Witness ==
    /\ Returned
    /\ Len(original) >= 3 /\ Distinct(original)
    /\ chars[Len(chars)] = original[1]

----------------------------------------------------------------------------
(* Claims about the copy button: specification SpecCopy *)

\* C10: after clicks that all found a non-empty output and copied it,
\* once no handler is waiting and every timer has fired, the button's label is
\* the label it had before the first click.
C10_LabelRestored ==
    (clicks > 0 /\ copied = clicks /\ awaiting = <<>> /\ timers = <<>>) =>
        label = CopyLabel

=============================================================================
